---- MODULE Spec2Model ----
(***************************************************************************)
(* Model of the client-side synchronization engine of the drawing machine  *)
(* front-end: frontend/src/composables/useWebSocket.ts (useWebSocket).     *)
(*                                                                         *)
(* The engine is event driven: every action below is one task of the       *)
(* browser's event loop (a call made by the view, a socket event, a timer  *)
(* callback).  The WebSocket objects follow the WHATWG API: readyState is  *)
(* CONNECTING -> OPEN -> CLOSING -> CLOSED, message events are delivered   *)
(* only while the socket is OPEN, a failed connection fires `error` and    *)
(* then `close` in one task, send() throws on a CONNECTING socket and      *)
(* silently discards on a CLOSING or CLOSED one.                           *)
(***************************************************************************)
EXTENDS Integers, Sequences, FiniteSets, TLC

VARIABLES
  ws,                 \* ws.value: 0 for null, else the id of the current socket
  readyState,         \* readyState of every WebSocket object created so far
  connectionStatus,   \* connectionStatus.value
  options,            \* the options object (apiKey is reassigned by updateApiKey)
  systemState,        \* the reactive mirror: mode, motorStates, blockchainData
  lastModeChangeTime, \* let lastModeChangeTime
  timers,             \* pending setTimeout(connect, delay) callbacks, in the order set
  now,                \* Date.now(), in milliseconds
  authPending,        \* per socket: authenticate messages the server has not answered
  task,               \* socket whose close event is still to be dispatched in the running task
  out,                \* frames handed to WebSocket.send by the last step
  lastEv,             \* history: the event handled by the last step
  authedOn,           \* history: sockets on which an 'authenticated' reply was delivered
  requestedMode,      \* history: the latest switchMode call (its mode, whether the
                      \* mode_change frame was sent, the mode of the call it followed
                      \* within that call's debounce window), <<>> if none
  callerClosed,       \* history: disconnect() was called and connect() not called since
  rejected            \* history: authentication_failed was handled, and the caller has
                      \* called neither connect() nor updateApiKey() since

vars == <<ws, readyState, connectionStatus, options, systemState,
          lastModeChangeTime, timers, now, authPending, task, out, lastEv,
          authedOn, requestedMode, callerClosed, rejected>>

----------------------------------------------------------------------------
(* Bounds *)

MaxSockets == 2      \* WebSocket objects created in one run
MaxTicks == 6        \* clock steps in one run
MaxPendingAuth == 2  \* unanswered authenticate messages per socket
MergeTicks == 2      \* clock steps in one run of the merge specification

(* Program constants *)

RECONNECT_DELAY == 3000
VISITOR_RECONNECT_DELAY == 5000
MODE_CHANGE_DEBOUNCE == 2000

TickMs == MODE_CHANGE_DEBOUNCE \div 2    \* granularity of the modelled clock
StartTime == MODE_CHANGE_DEBOUNCE + TickMs \* Date.now() at construction: the epoch clock
                                           \* is more than one debounce window past 0
MaxTime == StartTime + MaxTicks * TickMs

----------------------------------------------------------------------------
(* JavaScript values *)

None == <<>>                 \* undefined
Null == <<>>                 \* null where an object is expected
Some(v) == <<v>>
IsSome(o) == o # <<>>
Val(o) == o[1]

\* Object.assign(target, source) on plain objects
ObjectAssign(target, source) ==
  [f \in (DOMAIN target) \cup (DOMAIN source) |->
      IF f \in DOMAIN source THEN source[f] ELSE target[f]]

Sockets == 1..MaxSockets
Created == {s \in Sockets : readyState[s] # "NONE"}
NewSocket == Cardinality(Created) + 1

ClientTypes == {"web_ui", "visitor"}
Modes == {"manual", "auto", "hybrid", "offline"}
KnownMotors == {"motor_canvas", "motor_pb", "motor_pcd", "motor_pe"}

\* const systemState = reactive<SystemState>({...})
InitialMotor(t) ==
  [velocity_rpm |-> 0, direction |-> "CW", last_update |-> t \div 1000, is_enabled |-> TRUE]

InitialSystemState(clientType, t) ==
  [mode |-> IF clientType = "visitor" THEN "auto" ELSE "manual",
   motorStates |-> [m \in KnownMotors |-> InitialMotor(t)],
   blockchainData |->
     [eth_price_usd |-> <<"num", 0>>,
      block_number |-> IF clientType = "visitor" THEN <<"num", 0>> ELSE <<"str", "Loading...">>]]

Ev(op, s) == [op |-> op, sock |-> s, msg |-> <<>>]
MsgEv(s, data) == [op |-> data.type, sock |-> s, msg |-> data]

Undefined == "undefined"     \* the value of a missing string property
Get(obj, f) == IF f \in DOMAIN obj THEN obj[f] ELSE Undefined
\* if (obj.f) for a string or object property
Truthy(obj, f) == f \in DOMAIN obj /\ obj[f] # "" /\ obj[f] # Undefined

----------------------------------------------------------------------------
(* Outbound frames *)

\* mutant: the handshake never carries a credential
AuthMessageWithoutKey(clientType, apiKey) ==
  [type |-> "authenticate", client_type |-> clientType, user_info |-> <<>>, api_key |-> ""]

AuthMessage(clientType, apiKey) ==
  [type |-> "authenticate", client_type |-> clientType, user_info |-> <<>>,
   api_key |-> IF IsSome(apiKey) /\ Val(apiKey) # "" THEN Val(apiKey) ELSE ""]

\* WebSocket.send on socket s in ready state rs: "sent", "throws" or "discarded"
SendOutcome(rs) ==
  CASE rs = "OPEN" -> "sent"
    [] rs = "CONNECTING" -> "throws"
    [] OTHER -> "discarded"

----------------------------------------------------------------------------
(* Connection lifecycle *)

mirrorVars == <<systemState, lastModeChangeTime, requestedMode>>

\* The guard of connect(): ws.value?.readyState === WebSocket.OPEN
AlreadyOpen == ws # 0 /\ readyState[ws] = "OPEN"

\* connect(): the body shared by the caller's call and the reconnect timer
ConnectBody ==
  IF AlreadyOpen
    THEN UNCHANGED <<ws, readyState, connectionStatus>>
    ELSE /\ NewSocket \in Sockets
         /\ connectionStatus' = "connecting"
         /\ ws' = NewSocket
         /\ readyState' = [readyState EXCEPT ![NewSocket] = "CONNECTING"]

\* the view calls connect()
Connect ==
  /\ task = 0
  /\ ConnectBody
  /\ callerClosed' = FALSE
  /\ rejected' = FALSE
  /\ out' = <<>>
  /\ lastEv' = Ev("connect", ws')
  /\ UNCHANGED <<options, timers, now, authPending, task, authedOn>>
  /\ UNCHANGED mirrorVars

\* a setTimeout(connect, delay) callback runs.  Every timer of one engine has the
\* same delay, so the callbacks run in the order they were set; the time that
\* passes before one runs is not measured against the clock of the model.
ReconnectTimer ==
  /\ task = 0
  /\ timers # <<>>
  /\ timers' = Tail(timers)
  /\ ConnectBody
  /\ out' = <<>>
  /\ lastEv' = Ev("timer", ws')
  /\ UNCHANGED <<options, now, authPending, task, authedOn, callerClosed, rejected>>
  /\ UNCHANGED mirrorVars

\* ws.onopen of socket s: the handshake is sent on ws.value, whichever socket that is
OnOpen(s) ==
  /\ task = 0
  /\ readyState[s] = "CONNECTING"
  /\ readyState' = [readyState EXCEPT ![s] = "OPEN"]
  /\ LET outcome == SendOutcome(readyState'[ws])
     IN /\ outcome = "sent" => authPending[ws] < MaxPendingAuth
        /\ out' = IF outcome = "sent"
                    THEN <<[sock |-> ws, msg |-> AuthMessage(options.clientType, options.apiKey)]>>
                    ELSE <<>>
        /\ authPending' = IF outcome = "sent"
                            THEN [authPending EXCEPT ![ws] = @ + 1]
                            ELSE authPending
        /\ lastEv' = Ev(IF outcome = "throws" THEN "open_throws" ELSE "open", s)
  /\ UNCHANGED <<ws, connectionStatus, options, timers, now, task, authedOn, callerClosed,
                 rejected>>
  /\ UNCHANGED mirrorVars

\* options.reconnectDelay || (visitor ? VISITOR_RECONNECT_DELAY : RECONNECT_DELAY)
ReconnectDelayOf(opts) ==
  IF IsSome(opts.reconnectDelay) /\ Val(opts.reconnectDelay) # 0
    THEN Val(opts.reconnectDelay)
    ELSE IF opts.clientType = "visitor" THEN VISITOR_RECONNECT_DELAY ELSE RECONNECT_DELAY

\* options.autoReconnect !== false
AutoReconnect(opts) == opts.autoReconnect # Some(FALSE)

\* mutant: the reconnect is set only when autoReconnect === true
TimersAfterCloseStrictFlag(tm, opts, s) ==
  IF opts.autoReconnect = Some(TRUE)
    THEN Append(tm, [by |-> s, delay |-> ReconnectDelayOf(opts)])
    ELSE tm

\* mutant: a closed connection is given up
TimersAfterCloseGivesUp(tm, opts, s) == tm

\* ws.onclose: setTimeout(connect, delay) when auto-reconnect is on
TimersAfterClose(tm, opts, s) ==
  IF AutoReconnect(opts)
    THEN Append(tm, [by |-> s, delay |-> ReconnectDelayOf(opts)])
    ELSE tm

\* mutant: the error handler retries on its own
TimersAfterErrorRetries(tm, opts, s) ==
  Append(tm, [by |-> s, delay |-> ReconnectDelayOf(opts)])

\* ws.onerror sets no timer: the reconnect is left to the close event that follows
TimersAfterError(tm, opts, s) == tm

\* ws.onclose of socket s.  The close event of a failed connection is dispatched
\* in the task that dispatched its error event (task = s); otherwise the socket
\* was open, or closing after close(), and the connection ended.
OnClose(s) ==
  /\ \/ task = s
     \/ task = 0 /\ readyState[s] \in {"OPEN", "CLOSING"}
  /\ readyState' = [readyState EXCEPT ![s] = "CLOSED"]
  /\ connectionStatus' = "disconnected"
  /\ timers' = TimersAfterClose(timers, options, s)
  /\ task' = 0
  /\ out' = <<>>
  /\ lastEv' = Ev(IF task = s THEN "close_after_error" ELSE "close", s)
  /\ UNCHANGED <<ws, options, now, authPending, authedOn, callerClosed, rejected>>
  /\ UNCHANGED mirrorVars

\* ws.onerror of socket s: the connection failed; its close event follows in the same task
OnError(s) ==
  /\ task = 0
  /\ readyState[s] \in {"CONNECTING", "OPEN", "CLOSING"}
  /\ readyState' = [readyState EXCEPT ![s] = "CLOSED"]
  /\ connectionStatus' = "disconnected"
  /\ timers' = TimersAfterError(timers, options, s)
  /\ task' = s
  /\ out' = <<>>
  /\ lastEv' = Ev("error", s)
  /\ UNCHANGED <<ws, options, now, authPending, authedOn, callerClosed, rejected>>
  /\ UNCHANGED mirrorVars

\* disconnect(): if (ws.value) ws.value.close()
DisconnectBody ==
  readyState' = IF ws # 0 /\ readyState[ws] \in {"CONNECTING", "OPEN"}
                  THEN [readyState EXCEPT ![ws] = "CLOSING"]
                  ELSE readyState

\* the view calls disconnect(), or is unmounted: onUnmounted(() => { disconnect() })
Disconnect ==
  /\ task = 0
  /\ DisconnectBody
  /\ callerClosed' = TRUE
  /\ out' = <<>>
  /\ lastEv' = Ev("disconnect", ws)
  /\ UNCHANGED <<ws, connectionStatus, options, timers, now, authPending, task, authedOn,
                 rejected>>
  /\ UNCHANGED mirrorVars

\* time passes
Tick ==
  /\ task = 0
  /\ now < MaxTime
  /\ now' = now + TickMs
  /\ out' = <<>>
  /\ lastEv' = Ev("tick", 0)
  /\ UNCHANGED <<ws, readyState, connectionStatus, options, timers, authPending, task,
                 authedOn, callerClosed, rejected>>
  /\ UNCHANGED mirrorVars

----------------------------------------------------------------------------
(* State merge: the cases of handleMessage *)

\* mutant: the received actuator states replace the mirror's
MergeMotorStatesReplacing(motorStates, update) == update

\* the forEach over Object.keys(data.motor_states), and the single-actuator merge
MergeMotorStates(motorStates, update) ==
  [m \in (DOMAIN motorStates) \cup (DOMAIN update) |->
      IF m \in DOMAIN update
        THEN IF m \in DOMAIN motorStates
               THEN ObjectAssign(motorStates[m], update[m])
               ELSE update[m]
        ELSE motorStates[m]]

\* mutant: the mode is taken only from a broadcast that carries motor_states
ApplySystemStateModeWithMotors(st, data, t, last) ==
  IF t - last > MODE_CHANGE_DEBOUNCE /\ "motor_states" \in DOMAIN data
    THEN [st EXCEPT !.mode = Get(data, "mode"),
                    !.motorStates = MergeMotorStates(@, data.motor_states)]
    ELSE st

\* mutant: the mode is taken and the actuator states are left out
ApplySystemStateModeOnly(st, data, t, last) ==
  IF t - last > MODE_CHANGE_DEBOUNCE
    THEN [st EXCEPT !.mode = Get(data, "mode")]
    ELSE st

\* mutant: broadcasts are applied whenever they arrive
ApplySystemStateUnguarded(st, data, t, last) ==
  [st EXCEPT !.mode = Get(data, "mode"),
             !.motorStates = IF "motor_states" \in DOMAIN data
                               THEN MergeMotorStates(@, data.motor_states)
                               ELSE @]

\* case 'system_state'
ApplySystemState(st, data, t, last) ==
  IF t - last > MODE_CHANGE_DEBOUNCE
    THEN [st EXCEPT !.mode = Get(data, "mode"),
                    !.motorStates = IF "motor_states" \in DOMAIN data
                                      THEN MergeMotorStates(@, data.motor_states)
                                      ELSE @]
    ELSE st

\* mutant: the echo is debounced like a broadcast
ApplyModeChangedDebounced(st, data) ==
  IF Truthy(data, "new_mode") /\ now - lastModeChangeTime > MODE_CHANGE_DEBOUNCE
    THEN [st EXCEPT !.mode = data.new_mode]
    ELSE st

\* case 'mode_changed'
ApplyModeChanged(st, data) ==
  IF Truthy(data, "new_mode") THEN [st EXCEPT !.mode = data.new_mode] ELSE st

\* motorCommand.velocity_rpm || 0
VelocityOrZero(cmd) == IF "velocity_rpm" \in DOMAIN cmd THEN cmd.velocity_rpm ELSE 0
\* motorCommand.direction || 'CW'
DirectionOrCW(cmd) == IF Truthy(cmd, "direction") THEN cmd.direction ELSE "CW"

\* if (systemState.motorStates[motorName] && motorCommand)
CommandedMotors(motorStates, commands) ==
  {m \in (DOMAIN commands) \cap (DOMAIN motorStates) : commands[m] # Null}

\* mutant: the fields of the command win over the local time stamp and flag
MotorUpdatesServerFields(motorStates, data, t) ==
  IF "motor_commands" \in DOMAIN data
    THEN [m \in CommandedMotors(motorStates, data.motor_commands) |->
            ObjectAssign([velocity_rpm |-> 0, direction |-> "CW", last_update |-> t \div 1000,
                          is_enabled |-> TRUE],
                         data.motor_commands[m])]
    ELSE <<>>

\* mutant: every command makes an entry, as system_state does
MotorUpdatesCreating(motorStates, data, t) ==
  IF "motor_commands" \in DOMAIN data
    THEN [m \in DOMAIN data.motor_commands |->
            [velocity_rpm |-> VelocityOrZero(data.motor_commands[m]),
             direction |-> DirectionOrCW(data.motor_commands[m]),
             last_update |-> t \div 1000,
             is_enabled |-> TRUE]]
    ELSE <<>>

\* const motorUpdates: only the commands, not null, of motors the mirror already holds
MotorUpdates(motorStates, data, t) ==
  IF "motor_commands" \in DOMAIN data
    THEN [m \in CommandedMotors(motorStates, data.motor_commands) |->
            [velocity_rpm |-> VelocityOrZero(data.motor_commands[m]),
             direction |-> DirectionOrCW(data.motor_commands[m]),
             last_update |-> t \div 1000,
             is_enabled |-> TRUE]]
    ELSE <<>>

\* mutant: the feed is applied now, the motor updates are left for later
ApplyBlockchainDataFeedOnly(st, data, t) ==
  [st EXCEPT !.blockchainData =
                IF "blockchain_data" \in DOMAIN data THEN ObjectAssign(@, data.blockchain_data)
                ELSE IF "data" \in DOMAIN data THEN ObjectAssign(@, data.data)
                ELSE @]

\* case 'blockchain_data' / 'blockchain_data_update'
ApplyBlockchainData(st, data, t) ==
  [st EXCEPT !.blockchainData =
                IF "blockchain_data" \in DOMAIN data THEN ObjectAssign(@, data.blockchain_data)
                ELSE IF "data" \in DOMAIN data THEN ObjectAssign(@, data.data)
                ELSE @,
             !.motorStates = MergeMotorStates(@, MotorUpdates(@, data, t))]

\* case 'motor_state_update' / 'motor_update'
ApplyMotorUpdate(st, data) ==
  IF Truthy(data, "motor_name") /\ "state" \in DOMAIN data
    THEN [st EXCEPT !.motorStates =
            MergeMotorStates(@, [m \in {data.motor_name} |-> data.state])]
    ELSE st

\* handleMessage: the mirror after the message
MirrorAfter(st, data, t, last) ==
  CASE data.type = "system_state" -> ApplySystemState(st, data, t, last)
    [] data.type = "mode_changed" -> ApplyModeChanged(st, data)
    [] data.type \in {"blockchain_data", "blockchain_data_update"} -> ApplyBlockchainData(st, data, t)
    [] data.type \in {"motor_state_update", "motor_update"} -> ApplyMotorUpdate(st, data)
    [] OTHER -> st

\* mutant: a rejection is only logged
StatusAfterRejectionLogged(status, data) ==
  CASE data.type = "authenticated" -> "connected"
    [] OTHER -> status

\* mutant: an 'authenticated' reply without API access counts as a rejection
StatusAfterDemoRejected(status, data) ==
  CASE data.type = "authenticated" ->
         IF "api_access" \in DOMAIN data /\ data.api_access = FALSE
           THEN "disconnected" ELSE "connected"
    [] data.type = "authentication_failed" -> "disconnected"
    [] OTHER -> status

\* mutant: a type without a case ends the session
StatusAfterUnknownIsError(status, data) ==
  CASE data.type = "authenticated" -> "connected"
    [] data.type = "authentication_failed" -> "disconnected"
    [] data.type \in {"system_state", "mode_changed", "blockchain_data", "blockchain_data_update",
                      "motor_state_update", "motor_update", "motor_command_executed"} -> status
    [] OTHER -> "disconnected"

\* mutant: any frame but a rejection shows the connection to be up
StatusAfterAnyFrameConnects(status, data) ==
  CASE data.type = "authentication_failed" -> "disconnected"
    [] OTHER -> "connected"

\* handleMessage: connectionStatus after the message
StatusAfter(status, data) ==
  CASE data.type = "authenticated" -> "connected"
    [] data.type = "authentication_failed" -> "disconnected"
    [] OTHER -> status

AuthReplies == {"authenticated", "authentication_failed"}

\* alert('Demo mode: ...') in case 'authenticated'
Alerts(opts, data) ==
  /\ data.type = "authenticated"
  /\ "api_access" \in DOMAIN data /\ data.api_access = FALSE
  /\ opts.clientType = "web_ui"

\* ws.onmessage of socket s with a frame that parses to the object data.  The
\* server answers each authenticate message it received on s with one reply on s.
OnMessage(s, data) ==
  /\ task = 0
  /\ readyState[s] = "OPEN"
  /\ data.type \in AuthReplies => authPending[s] > 0
  /\ authPending' = IF data.type \in AuthReplies
                      THEN [authPending EXCEPT ![s] = @ - 1]
                      ELSE authPending
  /\ systemState' = MirrorAfter(systemState, data, now, lastModeChangeTime)
  /\ connectionStatus' = StatusAfter(connectionStatus, data)
  /\ authedOn' = IF data.type = "authenticated" THEN authedOn \cup {s} ELSE authedOn
  /\ rejected' = (rejected \/ data.type = "authentication_failed")
  /\ out' = <<>>
  /\ lastEv' = [MsgEv(s, data) EXCEPT !.op = IF Alerts(options, data) THEN "authenticated_alert" ELSE @]
  /\ UNCHANGED <<ws, readyState, options, lastModeChangeTime, timers, now, task,
                 requestedMode, callerClosed>>

\* mutant: the parse error is not caught and the engine gives the connection up
OnMalformedEscapes(s) ==
  /\ task = 0
  /\ readyState[s] = "OPEN"
  /\ connectionStatus' = "disconnected"
  /\ out' = <<>>
  /\ lastEv' = Ev("malformed", s)
  /\ UNCHANGED <<ws, readyState, options, timers, now, authPending, task, authedOn,
                 callerClosed, rejected>>
  /\ UNCHANGED mirrorVars

\* ws.onmessage of socket s with a frame JSON.parse rejects: caught and logged
OnMalformed(s) ==
  /\ task = 0
  /\ readyState[s] = "OPEN"
  /\ out' = <<>>
  /\ lastEv' = Ev("malformed", s)
  /\ UNCHANGED <<ws, readyState, connectionStatus, options, timers, now, authPending,
                 task, authedOn, callerClosed, rejected>>
  /\ UNCHANGED mirrorVars

----------------------------------------------------------------------------
(* Outbound commands *)

\* sendMessage(message): the frames handed to send()
SendMessage(message) ==
  IF AlreadyOpen THEN <<[sock |-> ws, msg |-> message]>> ELSE <<>>

\* sendMotorCommand(motorName, velocity, direction)
SendMotorCommand(motorName, velocity, direction) ==
  /\ task = 0
  /\ out' = SendMessage([type |-> "motor_command", motor_name |-> motorName,
                         velocity_rpm |-> velocity, direction |-> direction])
  /\ lastEv' = Ev("sendMotorCommand", ws)
  /\ UNCHANGED <<ws, readyState, connectionStatus, options, timers, now, authPending,
                 task, authedOn, callerClosed, rejected>>
  /\ UNCHANGED mirrorVars

\* mutant: the requested mode is shown at once, before the server echoes it
SwitchModeOptimistic(newMode) ==
  /\ task = 0
  /\ lastModeChangeTime' = now
  /\ systemState' = [systemState EXCEPT !.mode = newMode]
  /\ out' = SendMessage([type |-> "mode_change", mode |-> newMode])
  /\ requestedMode' = Some([mode |-> newMode, sent |-> AlreadyOpen, prev |-> Undefined])
  /\ lastEv' = Ev("switchMode", ws)
  /\ UNCHANGED <<ws, readyState, connectionStatus, options, timers, now,
                 authPending, task, authedOn, callerClosed, rejected>>

\* mutant: the request is sent and the guard is not armed by it
SwitchModeArmsLater(newMode) ==
  /\ task = 0
  /\ lastModeChangeTime' = lastModeChangeTime
  /\ out' = SendMessage([type |-> "mode_change", mode |-> newMode])
  /\ requestedMode' = Some([mode |-> newMode, sent |-> AlreadyOpen, prev |-> Undefined])
  /\ lastEv' = Ev("switchMode", ws)
  /\ UNCHANGED <<ws, readyState, connectionStatus, options, systemState, timers, now,
                 authPending, task, authedOn, callerClosed, rejected>>

\* switchMode(newMode)
SwitchMode(newMode) ==
  /\ task = 0
  /\ lastModeChangeTime' = now
  /\ out' = SendMessage([type |-> "mode_change", mode |-> newMode])
  /\ requestedMode' =
       Some([mode |-> newMode, sent |-> AlreadyOpen,
             prev |-> IF IsSome(requestedMode) /\ now - lastModeChangeTime <= MODE_CHANGE_DEBOUNCE
                        THEN Val(requestedMode).mode
                        ELSE Undefined])
  /\ lastEv' = Ev("switchMode", ws)
  /\ UNCHANGED <<ws, readyState, connectionStatus, options, systemState, timers, now,
                 authPending, task, authedOn, callerClosed, rejected>>

\* emergencyStop()
EmergencyStop ==
  /\ task = 0
  /\ out' = SendMessage([type |-> "emergency_stop"])
  /\ lastEv' = Ev("emergencyStop", ws)
  /\ UNCHANGED <<ws, readyState, connectionStatus, options, timers, now, authPending,
                 task, authedOn, callerClosed, rejected>>
  /\ UNCHANGED mirrorVars

\* mutant: the key is kept only when it could be sent
UpdateApiKeyWhenOpen(newApiKey) ==
  /\ task = 0
  /\ AlreadyOpen => authPending[ws] < MaxPendingAuth
  /\ options' = IF AlreadyOpen THEN [options EXCEPT !.apiKey = Some(newApiKey)] ELSE options
  /\ out' = SendMessage(AuthMessage(options.clientType, Some(newApiKey)))
  /\ authPending' = IF AlreadyOpen THEN [authPending EXCEPT ![ws] = @ + 1] ELSE authPending
  /\ rejected' = FALSE
  /\ lastEv' = [op |-> "updateApiKey", sock |-> ws, msg |-> [api_key |-> newApiKey]]
  /\ UNCHANGED <<ws, readyState, connectionStatus, timers, now, task, authedOn, callerClosed>>
  /\ UNCHANGED mirrorVars

\* updateApiKey(newApiKey)
UpdateApiKey(newApiKey) ==
  /\ task = 0
  /\ AlreadyOpen => authPending[ws] < MaxPendingAuth
  /\ options' = [options EXCEPT !.apiKey = Some(newApiKey)]
  /\ out' = SendMessage(AuthMessage(options.clientType, Some(newApiKey)))
  /\ authPending' = IF AlreadyOpen THEN [authPending EXCEPT ![ws] = @ + 1] ELSE authPending
  /\ rejected' = FALSE
  /\ lastEv' = [op |-> "updateApiKey", sock |-> ws, msg |-> [api_key |-> newApiKey]]
  /\ UNCHANGED <<ws, readyState, connectionStatus, timers, now, task, authedOn, callerClosed>>
  /\ UNCHANGED mirrorVars

----------------------------------------------------------------------------
(* The engine with its environment: the view, the server, the clock *)

\* the options a view passes to useWebSocket
OptionChoices ==
  [clientType : ClientTypes,
   apiKey : {None},
   autoReconnect : {None, Some(FALSE)},
   reconnectDelay : {None}]

InitWith(opts) ==
  /\ options = opts
  /\ ws = 0
  /\ readyState = [s \in Sockets |-> "NONE"]
  /\ connectionStatus = "disconnected"
  /\ now = StartTime
  /\ systemState = InitialSystemState(opts.clientType, now)
  /\ lastModeChangeTime = 0
  /\ timers = <<>>
  /\ authPending = [s \in Sockets |-> 0]
  /\ task = 0
  /\ out = <<>>
  /\ lastEv = Ev("init", 0)
  /\ authedOn = {}
  /\ requestedMode = None
  /\ callerClosed = FALSE
  /\ rejected = FALSE

Init == \E opts \in OptionChoices : InitWith(opts)

\* frames the server sends in the connection-lifecycle specification
AuthFrames ==
  {[type |-> "authenticated", api_access |-> TRUE],
   [type |-> "authenticated", api_access |-> FALSE],
   [type |-> "authentication_failed"]}

LifecycleFrames == AuthFrames \cup {[type |-> "mode_changed", new_mode |-> "hybrid"]}

\* the connection lifecycle: the view, the sockets, the reconnect timers, the handshake
Next ==
  \/ Connect
  \/ Disconnect
  \/ ReconnectTimer
  \/ \E s \in Sockets : OnOpen(s)
  \/ \E s \in Sockets : OnError(s)
  \/ \E s \in Sockets : OnClose(s)
  \/ \E s \in Sockets, data \in LifecycleFrames : OnMessage(s, data)
  \/ \E k \in {"key1"} : UpdateApiKey(k)

Spec == Init /\ [][Next]_vars

----------------------------------------------------------------------------
(* The mode-change debounce: one connection, the clock, switchMode and the    *)
(* server's system_state broadcasts and mode_changed echoes.                   *)

MirrorOptions ==
  [clientType : ClientTypes, apiKey : {None}, autoReconnect : {None}, reconnectDelay : {None}]

InitMirror == \E opts \in MirrorOptions : InitWith(opts)

\* the motor_states payloads of the server's broadcasts
MotorStatesPayloads ==
  {[motor_canvas |-> [velocity_rpm |-> 5]],
   [motor_x |-> [velocity_rpm |-> 7, direction |-> "CCW"]]}

MirrorFrames ==
  {[type |-> "authenticated", api_access |-> TRUE]}
  \cup {[type |-> "system_state"]}
  \cup {[type |-> "system_state", mode |-> m] : m \in {"manual", "auto"}}
  \cup {[type |-> "system_state", mode |-> m, motor_states |-> ms] :
           m \in {"manual", "auto"}, ms \in MotorStatesPayloads}
  \cup {[type |-> "mode_changed"]}
  \cup {[type |-> "mode_changed", new_mode |-> m] : m \in {"auto", "hybrid"}}

NextMirror ==
  \/ ws = 0 /\ Connect
  \/ Tick
  \/ \E s \in Sockets : OnOpen(s)
  \/ \E s \in Sockets, data \in MirrorFrames : OnMessage(s, data)
  \/ \E m \in {"manual", "auto"} : SwitchMode(m)

SpecMirror == InitMirror /\ [][NextMirror]_vars

----------------------------------------------------------------------------
(* The admin view's own copy of the engine: views/AdminControlView.vue keeps  *)
(* its ws, connectionStatus and handlers inline instead of using useWebSocket. *)
(* connect(), ws.onerror and the unmount hook are the same code as the         *)
(* composable's; ws.onopen, ws.onclose and case 'authenticated' differ.  The   *)
(* view's debug counters (messagesReceived, lastMessageReceived) are left out. *)

\* the view's state at setup: role web_ui, apiKey = ref(''), reconnect always on
AdminOptions ==
  [clientType |-> "web_ui", apiKey |-> Some(""), autoReconnect |-> None,
   reconnectDelay |-> None]

\* ws.onopen of the view
AdminOnOpen(s) ==
  /\ task = 0
  /\ readyState[s] = "CONNECTING"
  /\ readyState' = [readyState EXCEPT ![s] = "OPEN"]
  /\ connectionStatus' = "connected"
  /\ LET outcome == SendOutcome(readyState'[ws])
     IN /\ outcome = "sent" => authPending[ws] < MaxPendingAuth
        /\ out' = IF outcome = "sent"
                    THEN <<[sock |-> ws, msg |-> AuthMessage("web_ui", options.apiKey)]>>
                    ELSE <<>>
        /\ authPending' = IF outcome = "sent"
                            THEN [authPending EXCEPT ![ws] = @ + 1]
                            ELSE authPending
        /\ lastEv' = Ev(IF outcome = "throws" THEN "open_throws" ELSE "open", s)
  /\ UNCHANGED <<ws, options, timers, now, task, authedOn, callerClosed, rejected>>
  /\ UNCHANGED mirrorVars

\* ws.onclose of the view: setTimeout(connect, 3000) unconditionally
AdminOnClose(s) ==
  /\ \/ task = s
     \/ task = 0 /\ readyState[s] \in {"OPEN", "CLOSING"}
  /\ readyState' = [readyState EXCEPT ![s] = "CLOSED"]
  /\ connectionStatus' = "disconnected"
  /\ timers' = Append(timers, [by |-> s, delay |-> RECONNECT_DELAY])
  /\ task' = 0
  /\ out' = <<>>
  /\ lastEv' = Ev(IF task = s THEN "close_after_error" ELSE "close", s)
  /\ UNCHANGED <<ws, options, now, authPending, authedOn, callerClosed, rejected>>
  /\ UNCHANGED mirrorVars

\* the view's handleMessage for the server's answer to the handshake: case
\* 'authenticated' only logs and alerts, 'authentication_failed' has no case
AdminOnAuthReply(s, data) ==
  /\ task = 0
  /\ readyState[s] = "OPEN"
  /\ data.type \in AuthReplies
  /\ authPending[s] > 0
  /\ authPending' = [authPending EXCEPT ![s] = @ - 1]
  /\ authedOn' = IF data.type = "authenticated" THEN authedOn \cup {s} ELSE authedOn
  /\ rejected' = (rejected \/ data.type = "authentication_failed")
  /\ out' = <<>>
  /\ lastEv' = [MsgEv(s, data) EXCEPT !.op = IF Alerts(options, data) THEN "authenticated_alert" ELSE @]
  /\ UNCHANGED <<ws, readyState, connectionStatus, options, timers, now, task, callerClosed>>
  /\ UNCHANGED mirrorVars

InitAdminView == InitWith(AdminOptions)

NextAdminView ==
  \/ Connect
  \/ Disconnect
  \/ ReconnectTimer
  \/ \E s \in Sockets : AdminOnOpen(s)
  \/ \E s \in Sockets : OnError(s)
  \/ \E s \in Sockets : AdminOnClose(s)
  \/ \E s \in Sockets, data \in AuthFrames : AdminOnAuthReply(s, data)

SpecAdminView == InitAdminView /\ [][NextAdminView]_vars

----------------------------------------------------------------------------
(* The MotorControl components of the views.  Each emits motorCommand with a   *)
(* velocity and a direction; the view's sendMotorCommand, like the engine's,   *)
(* puts both into a motor_command frame unchanged and sends it if the socket   *)
(* is open.  The controls are disabled unless connectionStatus is 'connected'  *)
(* and the motor is enabled.                                                   *)

Abs(x) == IF x < 0 THEN -x ELSE x

\* the preset buttons of the preset variant, and its stop button (0)
PresetValues == {-20, -10, -2, 0, 2, 10, 20}

\* the preset buttons of the slider variant
SliderPresetValues == {0, 10, 25, 50, -10, -25}

\* sendCommand(rpm) of the preset variant: Math.abs(rpm), rpm >= 0 ? 'CW' : 'CCW'
PresetCommand(rpm) ==
  [velocity |-> Abs(rpm), direction |-> IF rpm >= 0 THEN "CW" ELSE "CCW"]

\* sendCommand() of the slider variant: velocity.value and direction.value as they are
SliderCommand(velocity, direction) ==
  [velocity |-> velocity, direction |-> direction]

\* emit('motorCommand', ...) handled by sendMotorCommand; control is what the
\* component was asked for
EmitMotorCommand(motorName, cmd, control) ==
  /\ task = 0
  /\ connectionStatus = "connected"
  /\ motorName \in DOMAIN systemState.motorStates
  /\ systemState.motorStates[motorName].is_enabled
  /\ out' = SendMessage([type |-> "motor_command", motor_name |-> motorName,
                         velocity_rpm |-> cmd.velocity, direction |-> cmd.direction])
  /\ lastEv' = [op |-> "motorCommand", sock |-> ws, msg |-> control]
  /\ UNCHANGED <<ws, readyState, connectionStatus, options, timers, now, authPending,
                 task, authedOn, callerClosed, rejected>>
  /\ UNCHANGED mirrorVars

\* setPresetVelocity(preset) / stopMotor() of the preset variant
PresetSetVelocity(motorName, preset) ==
  EmitMotorCommand(motorName, PresetCommand(preset), [control |-> "preset", rpm |-> preset])

\* setPresetVelocity(preset) of the slider variant, with the direction button
\* as the user left it
SliderSetVelocity(motorName, preset, direction) ==
  EmitMotorCommand(motorName, SliderCommand(preset, direction),
                   [control |-> "slider", rpm |-> preset, direction |-> direction])

NextMotorControl ==
  \/ Connect
  \/ Disconnect
  \/ ReconnectTimer
  \/ \E s \in Sockets : AdminOnOpen(s)
  \/ \E s \in Sockets : AdminOnClose(s)
  \/ \E s \in Sockets, data \in AuthFrames : AdminOnAuthReply(s, data)
  \/ \E rpm \in PresetValues : PresetSetVelocity("motor_canvas", rpm)
  \/ \E rpm \in SliderPresetValues, d \in {"CW", "CCW"} : SliderSetVelocity("motor_pb", rpm, d)

SpecMotorControl == InitAdminView /\ [][NextMotorControl]_vars

----------------------------------------------------------------------------
(* The inbound merges: one connection, the clock, switchMode, and the server's *)
(* feed updates, actuator updates and system_state broadcasts, a frame of a    *)
(* type the engine does not know, and frames that do not parse.                *)

\* the blockchain_data / data payloads of the feed updates
FeedDeltas ==
  {[eth_price_usd |-> <<"num", 2500>>],
   [eth_price_usd |-> <<"num", 2600>>, block_number |-> <<"num", 100>>]}

\* the motor_commands payloads of the feed updates
MotorCommandsPayloads ==
  {[motor_canvas |-> [velocity_rpm |-> 30, direction |-> "CCW", last_update |-> 1,
                      is_enabled |-> FALSE]],
   [motor_canvas |-> [direction |-> "CW"], motor_x |-> [velocity_rpm |-> 9],
    motor_pb |-> Null]}

MergeFrames ==
  {[type |-> "authenticated", api_access |-> TRUE]}
  \cup {[type |-> "blockchain_data", blockchain_data |-> [eth_price_usd |-> <<"num", 2500>>],
         motor_commands |-> c] : c \in MotorCommandsPayloads}
  \cup {[type |-> "blockchain_data_update", data |-> d,
         motor_commands |-> [motor_canvas |-> [velocity_rpm |-> 30, direction |-> "CCW"]]] :
           d \in FeedDeltas}
  \cup {[type |-> "blockchain_data", blockchain_data |-> [eth_price_usd |-> <<"num", 2500>>]]}
  \cup {[type |-> "system_state", mode |-> "manual", motor_states |-> ms] :
           ms \in MotorStatesPayloads}
  \cup UNION {{[type |-> "motor_update", motor_name |-> m, state |-> ms[m]] : m \in DOMAIN ms} :
                ms \in MotorStatesPayloads}
  \cup {[type |-> "motor_state_update", motor_name |-> "motor_canvas",
         state |-> [velocity_rpm |-> -5]]}
  \cup {[type |-> "motor_update", motor_name |-> "motor_canvas"]}
  \cup {[type |-> "server_notice", text |-> "maintenance"]}

\* the clock of this specification stops after MergeTicks steps
NextMerge ==
  \/ ws = 0 /\ Connect
  \/ now < StartTime + MergeTicks * TickMs /\ Tick
  \/ \E s \in Sockets : OnOpen(s)
  \/ \E s \in Sockets, data \in MergeFrames : OnMessage(s, data)
  \/ \E s \in Sockets : OnMalformed(s)
  \/ SwitchMode("auto")

SpecMerge == InitMirror /\ [][NextMerge]_vars

----------------------------------------------------------------------------
(* The outbound commands: the view calls them in any connection state.  Auto-  *)
(* reconnect is off, so every socket is one the view asked for.                *)

CommandOptions ==
  [clientType : ClientTypes, apiKey : {None}, autoReconnect : {Some(FALSE)},
   reconnectDelay : {None}]

InitCommands == \E opts \in CommandOptions : InitWith(opts)

NextCommands ==
  \/ Connect
  \/ Disconnect
  \/ \E s \in Sockets : OnOpen(s)
  \/ \E s \in Sockets : OnClose(s)
  \/ \E s \in Sockets, data \in AuthFrames : OnMessage(s, data)
  \/ \E d \in {"CW", "CCW"} : SendMotorCommand("motor_canvas", 50, d)
  \/ SwitchMode("auto")
  \/ EmergencyStop
  \/ \E k \in {"key1"} : UpdateApiKey(k)

SpecCommands == InitCommands /\ [][NextCommands]_vars

----------------------------------------------------------------------------
(* Reconnection under fair scheduling: auto-reconnect is on and the server     *)
(* accepts the credentials.  The event loop runs every timer callback that is  *)
(* due; a connecting socket that the server accepts opens and gets its reply;  *)
(* the close event of a failed connection follows its error event in the same  *)
(* task, and a socket that is closing does close.  Nothing obliges the caller  *)
(* to act, an open socket to close or a connection to fail.                    *)

ReconnectOptions ==
  [clientType : ClientTypes, apiKey : {None}, autoReconnect : {None, Some(TRUE)},
   reconnectDelay : {None}]

InitReconnect == \E opts \in ReconnectOptions : InitWith(opts)

Accepted == [type |-> "authenticated", api_access |-> TRUE]

NextReconnect ==
  \/ Connect
  \/ Disconnect
  \/ ReconnectTimer
  \/ \E s \in Sockets : OnOpen(s)
  \/ \E s \in Sockets : OnError(s)
  \/ \E s \in Sockets : OnClose(s)
  \/ \E s \in Sockets : OnMessage(s, Accepted)

FairReconnect ==
  /\ WF_vars(ReconnectTimer)
  /\ WF_vars(\E s \in Sockets : OnOpen(s))
  /\ WF_vars(\E s \in Sockets : OnMessage(s, Accepted))
  /\ WF_vars(\E s \in Sockets : (task = s \/ readyState[s] = "CLOSING") /\ OnClose(s))

SpecReconnect == InitReconnect /\ [][NextReconnect]_vars /\ FairReconnect

----------------------------------------------------------------------------
(* Everything that reaches the engine on one connection, with auto-reconnect   *)
(* off: connect() and disconnect(), the socket's events, handshake replies,    *)
(* one frame of each state-merge type, and the four commands.                  *)

StatusFrames ==
  {[type |-> "authenticated", api_access |-> TRUE],
   [type |-> "authentication_failed"],
   [type |-> "system_state", mode |-> "auto"],
   [type |-> "mode_changed", new_mode |-> "auto"],
   [type |-> "blockchain_data", blockchain_data |-> [eth_price_usd |-> <<"num", 2500>>]],
   [type |-> "motor_update", motor_name |-> "motor_canvas", state |-> [velocity_rpm |-> 5]],
   [type |-> "motor_command_executed", motor_name |-> "motor_canvas"]}

NextStatus ==
  \/ ws = 0 /\ Connect
  \/ Disconnect
  \/ \E s \in Sockets : OnOpen(s)
  \/ \E s \in Sockets : OnError(s)
  \/ \E s \in Sockets : OnClose(s)
  \/ \E s \in Sockets, data \in StatusFrames : OnMessage(s, data)
  \/ SendMotorCommand("motor_canvas", 50, "CW")
  \/ SwitchMode("auto")
  \/ EmergencyStop
  \/ UpdateApiKey("key1")

SpecStatus == InitCommands /\ [][NextStatus]_vars

----------------------------------------------------------------------------
(* The credential: the engine is constructed with or without an apiKey, the    *)
(* caller supplies new ones at any time, and the sockets of one initial        *)
(* connect() and of the reconnect timers open, get their replies and close.    *)

CredentialOptions ==
  [clientType : ClientTypes, apiKey : {None, Some("key0")}, autoReconnect : {None},
   reconnectDelay : {None}]

InitCredential == \E opts \in CredentialOptions : InitWith(opts)

NextCredential ==
  \/ ws = 0 /\ Connect
  \/ ReconnectTimer
  \/ \E s \in Sockets : OnOpen(s)
  \/ \E s \in Sockets : OnClose(s)
  \/ \E s \in Sockets, data \in AuthFrames : OnMessage(s, data)
  \/ \E k \in {"key1", "key2"} : UpdateApiKey(k)

SpecCredential == InitCredential /\ [][NextCredential]_vars

----------------------------------------------------------------------------
(* The reconnect delay: the lifecycle with the reconnectDelay option absent,   *)
(* zero or a positive number of milliseconds.                                  *)

DelayOverrides == {None, Some(0), Some(1000)}

DelayOptions ==
  [clientType : ClientTypes, apiKey : {None}, autoReconnect : {None},
   reconnectDelay : DelayOverrides]

InitDelay == \E opts \in DelayOptions : InitWith(opts)

SpecDelay == InitDelay /\ [][NextReconnect]_vars

----------------------------------------------------------------------------
(* Properties of the connection lifecycle *)

TimersBy(s) == {i \in 1..Len(timers) : timers[i].by = s}

\* C2: connect() called while connectionStatus is 'connecting' or 'connected' is a
\* no-op: no socket is created, ws.value and connectionStatus are unchanged.
C2_ConnectIsNoOpWhenConnectingOrConnected ==
  [][(lastEv'.op = "connect" /\ connectionStatus \in {"connecting", "connected"})
       => (ws' = ws /\ readyState' = readyState /\ connectionStatus' = connectionStatus)]_vars

\* C3: disconnect() cancels every pending reconnect timer, and once the caller has
\* disconnected no timer callback opens a socket until the caller calls connect().
C3_DisconnectCancelsReconnect ==
  [][/\ lastEv'.op = "disconnect" => timers' = <<>>
     /\ (callerClosed /\ lastEv'.op = "timer") => (ws' = ws /\ readyState' = readyState)]_vars

\* C9: right after the close event of a socket the status is 'disconnected' and
\* exactly one reconnect timer was set for that close when auto-reconnect is on
\* (the default), none when it is off.
C9_CloseSchedulesOneReconnect ==
  lastEv.op \in {"close", "close_after_error"} =>
    /\ connectionStatus = "disconnected"
    /\ Cardinality(TimersBy(lastEv.sock)) = IF options.autoReconnect = Some(FALSE) THEN 0 ELSE 1

C9_Witness ==
  /\ lastEv.op = "close"
  /\ options.autoReconnect = None
  /\ Len(timers) = 1

\* C10: a socket error ends like a socket close: the status is 'disconnected' after
\* the error event, its close event follows in the same task and sets the one
\* reconnect timer of that socket; no socket ever has two reconnect timers.
C10_ErrorEndsLikeClose ==
  /\ lastEv.op = "error" =>
       /\ connectionStatus = "disconnected"
       /\ task = lastEv.sock
       /\ TimersBy(lastEv.sock) = {}
  /\ lastEv.op = "close_after_error" =>
       /\ connectionStatus = "disconnected"
       /\ task = 0
       /\ Cardinality(TimersBy(lastEv.sock)) = IF options.autoReconnect = Some(FALSE) THEN 0 ELSE 1
  /\ \A s \in Sockets : Cardinality(TimersBy(s)) <= 1

C10_Witness ==
  /\ lastEv.op = "close_after_error"
  /\ options.autoReconnect = None
  /\ TimersBy(lastEv.sock) # {}

\* C1: connectionStatus is 'connected' only if the 'authenticated' reply of the
\* server was received on the current socket; the open event of a socket alone
\* does not make the status 'connected'.
C1_ConnectedOnlyAfterAuthenticated ==
  /\ connectionStatus = "connected" => (ws # 0 /\ ws \in authedOn)
  /\ (lastEv.op \in {"open", "open_throws"} /\ lastEv.sock = ws) => connectionStatus # "connected"

----------------------------------------------------------------------------
(* Properties of the mode-change debounce *)

\* the debounce guard of case 'system_state' is closed at time t
GuardActive == now - lastModeChangeTime <= MODE_CHANGE_DEBOUNCE

\* a local mode change was requested and its debounce window has not expired
PendingModeChange == IsSome(requestedMode) /\ GuardActive

\* the mode_change frame of the pending request went out, and asked for mode m
PendingRequestFor(m) ==
  PendingModeChange /\ Val(requestedMode).sent /\ Val(requestedMode).mode = m

\* every field of every entry of the payload is in the mirror
MotorFieldsMerged(motorStates, payload) ==
  \A m \in DOMAIN payload :
    /\ m \in DOMAIN motorStates
    /\ \A f \in DOMAIN payload[m] :
         f \in DOMAIN motorStates[m] /\ motorStates[m][f] = payload[m][f]

PayloadMerged(motorStates, data) ==
  "motor_states" \in DOMAIN data => MotorFieldsMerged(motorStates, data.motor_states)

\* C4: a system_state inside the debounce window of a request for mode M that
\* reports another mode leaves operatingMode unchanged, and the actuator fields
\* it carries are merged all the same.
C4_StaleModeDroppedTelemetryMerged ==
  [][(/\ lastEv'.op = "system_state"
      /\ "mode" \in DOMAIN lastEv'.msg
      /\ \E m \in Modes : PendingRequestFor(m) /\ lastEv'.msg.mode # m)
       => (systemState'.mode = systemState.mode /\ PayloadMerged(systemState'.motorStates, lastEv'.msg))]_vars

\* C5: a system_state inside the debounce window that reports the requested
\* mode M is the acknowledgment: its mode and its actuator fields are applied.
C5_AcknowledgingStateApplied ==
  [][(/\ lastEv'.op = "system_state"
      /\ "mode" \in DOMAIN lastEv'.msg
      /\ PendingRequestFor(lastEv'.msg.mode))
       => (systemState'.mode = lastEv'.msg.mode /\ PayloadMerged(systemState'.motorStates, lastEv'.msg))]_vars

C7_ModeChangedIsAuthoritative ==
  (lastEv.op = "mode_changed" /\ "new_mode" \in DOMAIN lastEv.msg)
    => systemState.mode = lastEv.msg.new_mode

C7_Witness ==
  /\ lastEv.op = "mode_changed"
  /\ PendingModeChange
  /\ "new_mode" \in DOMAIN lastEv.msg
  /\ Val(requestedMode).sent
  /\ lastEv.msg.new_mode # Val(requestedMode).mode
  /\ systemState.mode = lastEv.msg.new_mode

\* C8: a mode_changed message clears the pending mode change: the system_state
\* handled right after it, still inside the window of the request, is applied
\* as if no guard were active.
C8_ModeChangedClearsGuard ==
  [][(/\ lastEv.op = "mode_changed"
      /\ "new_mode" \in DOMAIN lastEv.msg
      /\ PendingModeChange
      /\ Val(requestedMode).sent
      /\ lastEv'.op = "system_state"
      /\ "mode" \in DOMAIN lastEv'.msg)
       => (systemState'.mode = lastEv'.msg.mode /\ PayloadMerged(systemState'.motorStates, lastEv'.msg))]_vars

\* mode M2 was requested within the debounce window of a request for another
\* mode M1, and the window of the second request has not expired
RapidDoubleRequest ==
  /\ PendingModeChange
  /\ Val(requestedMode).prev # Undefined
  /\ Val(requestedMode).prev # Val(requestedMode).mode

\* C17: after switchMode(M1) and switchMode(M2) within the debounce window, a
\* system_state that reports M1 inside the window leaves operatingMode as it
\* was, and a mode_changed for M2 sets operatingMode to M2.
C17_RapidDoubleRequestKeepsLast ==
  [][/\ (/\ RapidDoubleRequest
         /\ lastEv'.op = "system_state"
         /\ Get(lastEv'.msg, "mode") = Val(requestedMode).prev)
          => systemState'.mode = systemState.mode
     /\ (/\ RapidDoubleRequest
         /\ lastEv'.op = "mode_changed"
         /\ Get(lastEv'.msg, "new_mode") = Val(requestedMode).mode)
          => systemState'.mode = Val(requestedMode).mode]_vars

\* 'auto' then 'manual' were requested and sent; the echo of 'auto' was dropped
C17_Witness ==
  /\ RapidDoubleRequest
  /\ Val(requestedMode).sent
  /\ lastEv.op = "system_state"
  /\ Get(lastEv.msg, "mode") = Val(requestedMode).prev
  /\ systemState.mode # Val(requestedMode).prev

----------------------------------------------------------------------------
(* Properties of the handshake and its replies *)

\* C11: the step that handles authentication_failed leaves connectionStatus
\* 'disconnected' and sets no reconnect timer; the socket it arrived on stays as
\* it was (the timer belongs to the close event, not to the rejection).
C11_RejectionDisconnectsWithoutTimer ==
  [][lastEv'.op = "authentication_failed"
       => (connectionStatus' = "disconnected" /\ timers' = timers)]_vars

\* a rejection on an engine with auto-reconnect on, and nothing scheduled
C11_Witness ==
  /\ lastEv.op = "authentication_failed"
  /\ AutoReconnect(options)
  /\ connectionStatus = "disconnected"
  /\ timers = <<>>

\* C12: the step that handles authentication_failed closes the socket, and from
\* then on no step other than the caller's connect() or updateApiKey() sends an
\* authenticate message or opens a socket.
C12_RejectionTearsDownNoAutomaticRetry ==
  [][/\ lastEv'.op = "authentication_failed"
          => readyState'[lastEv'.sock] \in {"CLOSING", "CLOSED"}
     /\ (rejected /\ lastEv'.op \notin {"connect", "updateApiKey"})
          => /\ \A i \in 1..Len(out') : out'[i].msg.type # "authenticate"
             /\ \A s \in Sockets : readyState'[s] = "CONNECTING" => readyState[s] = "CONNECTING"]_vars

----------------------------------------------------------------------------
(* Properties of the outbound commands *)

CommandOps == {"sendMotorCommand", "switchMode", "emergencyStop", "updateApiKey"}

\* the state of the engine, without the clock and the history
engineVars == <<ws, readyState, connectionStatus, options, systemState, lastModeChangeTime, timers>>

\* C13: a command called while connectionStatus is not 'connected' hands no frame
\* to the socket and changes nothing in the engine, and no later step that is
\* not a command call sends a command frame.
C13_CommandsAreNoOpsUnlessConnected ==
  [][/\ (lastEv'.op \in CommandOps /\ connectionStatus # "connected")
          => (out' = <<>> /\ UNCHANGED engineVars)
     /\ lastEv'.op \notin CommandOps
          => \A i \in 1..Len(out') :
                out'[i].msg.type \notin {"motor_command", "mode_change", "emergency_stop"}]_vars

----------------------------------------------------------------------------
(* Properties of the inbound merges *)

\* the feed fields a blockchain_data / blockchain_data_update frame carries
FeedDeltaOf(data) ==
  IF "blockchain_data" \in DOMAIN data THEN data.blockchain_data
  ELSE IF "data" \in DOMAIN data THEN data.data
  ELSE <<>>

\* C14: in the state the handler of a feed update leaves, the feed holds every
\* field of the update and every actuator of the mirror that the update's
\* motor_commands name holds the commanded values: a reader that runs after the
\* handler never sees one half applied without the other.
C14_FeedAndActuatorsAppliedTogether ==
  lastEv.op \in {"blockchain_data", "blockchain_data_update"} =>
    /\ \A f \in DOMAIN FeedDeltaOf(lastEv.msg) :
          /\ f \in DOMAIN systemState.blockchainData
          /\ systemState.blockchainData[f] = FeedDeltaOf(lastEv.msg)[f]
    /\ "motor_commands" \in DOMAIN lastEv.msg =>
          \A m \in {k \in (DOMAIN lastEv.msg.motor_commands) \cap (DOMAIN systemState.motorStates) :
                       lastEv.msg.motor_commands[k] # Null} :
            LET cmd == lastEv.msg.motor_commands[m]
                st == systemState.motorStates[m]
            IN /\ st.velocity_rpm = IF "velocity_rpm" \in DOMAIN cmd THEN cmd.velocity_rpm ELSE 0
               /\ st.direction = IF "direction" \in DOMAIN cmd THEN cmd.direction ELSE "CW"
               /\ st.is_enabled = TRUE
               /\ st.last_update = now \div 1000

\* a combined update was handled: new price, new velocity
C14_Witness ==
  /\ lastEv.op = "blockchain_data_update"
  /\ "motor_commands" \in DOMAIN lastEv.msg
  /\ systemState.blockchainData.eth_price_usd = <<"num", 2500>>
  /\ systemState.motorStates.motor_canvas.velocity_rpm = 30
  /\ systemState.motorStates.motor_canvas.direction = "CCW"

\* the per-actuator updates a frame carries: the motor_states of a system_state,
\* or the state of a single-actuator update under its motor_name
ActuatorUpdatesOf(data) ==
  IF data.type = "system_state" /\ "motor_states" \in DOMAIN data
    THEN data.motor_states
  ELSE IF /\ data.type \in {"motor_update", "motor_state_update"}
          /\ "motor_name" \in DOMAIN data
          /\ "state" \in DOMAIN data
    THEN [m \in {data.motor_name} |-> data.state]
  ELSE <<>>

\* C15: after a system_state or a single-actuator update, every actuator the
\* mirror already held and the update names has each field of the update at
\* the update's value and each other field at its prior value.
C15_ActuatorMergeIsFieldWise ==
  [][lastEv'.op \in {"system_state", "motor_update", "motor_state_update"}
       => \A m \in (DOMAIN ActuatorUpdatesOf(lastEv'.msg)) \cap (DOMAIN systemState.motorStates) :
            LET upd == ActuatorUpdatesOf(lastEv'.msg)[m]
                old == systemState.motorStates[m]
                new == systemState'.motorStates[m]
            IN /\ DOMAIN new = (DOMAIN old) \cup (DOMAIN upd)
               /\ \A f \in DOMAIN new :
                     new[f] = IF f \in DOMAIN upd THEN upd[f] ELSE old[f]]_vars

\* C16: after a system_state or a single-actuator update, the identifiers of the
\* mirror are those it held before together with those the update names, and an
\* identifier that was new holds the update's state.
C16_UnknownActuatorIsCreated ==
  [][lastEv'.op \in {"system_state", "motor_update", "motor_state_update"}
       => LET upd == ActuatorUpdatesOf(lastEv'.msg)
          IN /\ DOMAIN systemState'.motorStates = (DOMAIN systemState.motorStates) \cup (DOMAIN upd)
             /\ \A m \in (DOMAIN upd) \ (DOMAIN systemState.motorStates) :
                   systemState'.motorStates[m] = upd[m]]_vars

\* C18: when the current socket closes while connectionStatus is 'connected',
\* the status becomes 'disconnected' and (auto-reconnect on) one timer with the
\* delay of the role is set; a connect() call made while that timer is pending
\* creates no socket and leaves ws.value alone.
C18_ConnectDuringOutageIsNoOp ==
  [][/\ (lastEv'.op = "close" /\ lastEv'.sock = ws /\ connectionStatus = "connected")
          => /\ connectionStatus' = "disconnected"
             /\ AutoReconnect(options) =>
                   timers' = Append(timers,
                                    [by |-> ws,
                                     delay |-> IF options.clientType = "visitor"
                                                 THEN VISITOR_RECONNECT_DELAY
                                                 ELSE RECONNECT_DELAY])
     /\ (/\ lastEv'.op = "connect"
         /\ ws # 0 /\ ws \in authedOn
         /\ readyState[ws] = "CLOSED"
         /\ TimersBy(ws) # {})
          => (ws' = ws /\ readyState' = readyState)]_vars

\* C19: the open event of a socket hands exactly one frame to that socket: the
\* authenticate message with the role of the options, the current apiKey ('' when
\* there is none) and an empty user_info.
C19_OpenSendsOneHandshakeOnThatSocket ==
  lastEv.op \in {"open", "open_throws"} =>
    out = <<[sock |-> lastEv.sock,
             msg |-> [type |-> "authenticate",
                      client_type |-> options.clientType,
                      user_info |-> <<>>,
                      api_key |-> IF IsSome(options.apiKey) THEN Val(options.apiKey) ELSE ""]]>>

\* C20: after an 'authenticated' reply connectionStatus is 'connected' and the
\* socket it came on is still open, whatever api_access says; the notice is
\* raised exactly for a web_ui client told api_access is false.
C20_AuthenticatedConnectsEvenWithoutApiAccess ==
  lastEv.op \in {"authenticated", "authenticated_alert"} =>
    /\ connectionStatus = "connected"
    /\ readyState[lastEv.sock] = "OPEN"
    /\ TimersBy(lastEv.sock) = {}
    /\ lastEv.op = "authenticated_alert"
          <=> (lastEv.msg.api_access = FALSE /\ options.clientType = "web_ui")

\* a web_ui client was told api_access is false: notice raised, still connected
C20_Witness ==
  /\ lastEv.op = "authenticated_alert"
  /\ lastEv.msg.api_access = FALSE
  /\ lastEv.sock = ws
  /\ connectionStatus = "connected"

\* C21: updateApiKey called while the current socket is open hands that socket
\* one authenticate message with the new key, leaves ws.value, every readyState
\* and the timers as they were, and the reply that follows sets connectionStatus
\* as a reply to the first handshake does.
C21_UpdateApiKeyReauthenticatesInPlace ==
  [][/\ (lastEv'.op = "updateApiKey" /\ AlreadyOpen)
          => /\ out' = <<[sock |-> ws,
                          msg |-> [type |-> "authenticate",
                                   client_type |-> options.clientType,
                                   user_info |-> <<>>,
                                   api_key |-> Val(options'.apiKey)]]>>
             /\ UNCHANGED <<ws, readyState, timers, connectionStatus>>
     /\ (lastEv.op = "updateApiKey" /\ out # <<>> /\ lastEv'.op \in {"authenticated", "authenticated_alert"})
          => (connectionStatus' = "connected" /\ UNCHANGED <<ws, readyState, timers>>)
     /\ (lastEv.op = "updateApiKey" /\ out # <<>> /\ lastEv'.op = "authentication_failed")
          => (connectionStatus' = "disconnected" /\ UNCHANGED <<ws, readyState, timers>>)]_vars

\* the new key went out on the open, authenticated socket
C21_Witness ==
  /\ lastEv.op = "updateApiKey"
  /\ ws \in authedOn
  /\ connectionStatus = "connected"
  /\ Len(out) = 1
  /\ out[1].sock = ws
  /\ out[1].msg.api_key = "key1"

----------------------------------------------------------------------------
(* Properties of the frame dispatch *)

\* the types handleMessage has a case for
KnownTypes ==
  {"authenticated", "system_state", "mode_changed", "blockchain_data", "blockchain_data_update",
   "motor_state_update", "motor_update", "motor_command_executed", "authentication_failed"}

\* what a frame must leave alone to count as discarded
dispatchVars == <<systemState, connectionStatus, ws, readyState, lastModeChangeTime, timers>>

\* C22: a frame that does not parse changes neither the mirror nor the status,
\* the sockets, the debounce guard or the timers, and the actuator update that
\* is handled right after it is merged as usual.
C22_MalformedFrameIsDiscarded ==
  [][/\ lastEv'.op = "malformed" => UNCHANGED dispatchVars
     /\ (lastEv.op = "malformed" /\ lastEv'.op \in {"motor_update", "motor_state_update"})
          => MotorFieldsMerged(systemState'.motorStates, ActuatorUpdatesOf(lastEv'.msg))]_vars

\* a malformed frame arrived on the authenticated socket while the guard was armed
C22_Witness ==
  /\ lastEv.op = "malformed"
  /\ connectionStatus = "connected"
  /\ PendingModeChange
  /\ readyState[lastEv.sock] = "OPEN"

\* C23: a frame that parses but whose type has no case changes neither the
\* mirror nor the status, the sockets, the debounce guard or the timers, and is
\* dispatched as a message, not as a decode error.
C23_UnknownTypeIsIgnored ==
  [][("type" \in DOMAIN lastEv'.msg /\ lastEv'.msg.type \notin KnownTypes)
       => (UNCHANGED dispatchVars /\ lastEv'.op = lastEv'.msg.type)]_vars

C23_Witness ==
  /\ lastEv.op = "server_notice"
  /\ connectionStatus = "connected"
  /\ readyState[lastEv.sock] = "OPEN"

----------------------------------------------------------------------------
(* Properties of the actuator values *)

\* C24: after a feed update with motor_commands, every actuator of the mirror
\* for which motor_commands holds a command (not null) has last_update at the local clock (in seconds),
\* is_enabled true, the velocity_rpm of the command or 0 without one, and the
\* direction of the command or 'CW' without one.
C24_CommandedActuatorDefaults ==
  (lastEv.op \in {"blockchain_data", "blockchain_data_update"} /\ "motor_commands" \in DOMAIN lastEv.msg)
    => \A m \in {k \in (DOMAIN lastEv.msg.motor_commands) \cap (DOMAIN systemState.motorStates) :
                    lastEv.msg.motor_commands[k] # Null} :
         LET cmd == lastEv.msg.motor_commands[m]
         IN [f \in {"velocity_rpm", "direction", "last_update", "is_enabled"} |->
               systemState.motorStates[m][f]]
            = [velocity_rpm |-> IF "velocity_rpm" \in DOMAIN cmd THEN cmd.velocity_rpm ELSE 0,
               direction |-> IF "direction" \in DOMAIN cmd THEN cmd.direction ELSE "CW",
               last_update |-> now \div 1000,
               is_enabled |-> TRUE]

\* a command without velocity_rpm, handled after the clock moved: stopped, stamped now
C24_Witness ==
  /\ lastEv.op = "blockchain_data"
  /\ "motor_commands" \in DOMAIN lastEv.msg
  /\ "velocity_rpm" \notin DOMAIN lastEv.msg.motor_commands.motor_canvas
  /\ now > StartTime
  /\ systemState.motorStates.motor_canvas.velocity_rpm = 0
  /\ systemState.motorStates.motor_canvas.last_update = now \div 1000

\* the signed velocity the user asked a control for: a negative number or the
\* CCW button means reverse
IntendedVelocity(control) ==
  IF control.control = "slider" /\ control.direction = "CCW"
    THEN -Abs(control.rpm)
    ELSE control.rpm

\* C25: every motor_command handed to the socket carries the magnitude of the
\* intended velocity and its sense: |v| and 'CCW' for v < 0, v and 'CW' for
\* v >= 0; velocity_rpm is never negative.
C25_TransmittedCommandIsNormalized ==
  lastEv.op = "motorCommand" =>
  \A i \in 1..Len(out) :
    out[i].msg.type = "motor_command" =>
      LET v == IntendedVelocity(lastEv.msg)
      IN /\ out[i].msg.velocity_rpm >= 0
         /\ out[i].msg.velocity_rpm = Abs(v)
         /\ out[i].msg.direction = IF v < 0 THEN "CCW" ELSE "CW"

\* C26: in every reachable state every actuator entry of the mirror has a
\* velocity_rpm that is not negative, whatever system_state, motor_update and
\* blockchain_data frames were handled.
C26_MirrorVelocityNonNegative ==
  \A m \in DOMAIN systemState.motorStates :
    /\ "velocity_rpm" \in DOMAIN systemState.motorStates[m]
    /\ systemState.motorStates[m].velocity_rpm >= 0

----------------------------------------------------------------------------
(* Properties of the reconnection under fair scheduling *)

CloseOps == {"close", "close_after_error"}

----------------------------------------------------------------------------
(* Properties of the arming of the mode-change guard *)

\* C28: when switchMode has transmitted its mode_change the timestamp is that
\* of the call, and a system_state handled right after the send, with no time
\* elapsed, finds the guard armed: it changes nothing in the mirror.
C28_GuardArmedBeforeSend ==
  [][/\ (lastEv'.op = "switchMode" /\ out' # <<>>) => lastModeChangeTime' = now'
     /\ (lastEv.op = "switchMode" /\ out # <<>> /\ lastEv'.op = "system_state")
          => systemState' = systemState]_vars

\* a broadcast with another mode and telemetry was handled in the instant of the send
C28_Witness ==
  /\ lastEv.op = "system_state"
  /\ IsSome(requestedMode) /\ Val(requestedMode).sent
  /\ now = lastModeChangeTime
  /\ "mode" \in DOMAIN lastEv.msg /\ lastEv.msg.mode # systemState.mode
  /\ "motor_states" \in DOMAIN lastEv.msg

\* C29: the guard is active only from the sending of a mode_change until
\* MODE_CHANGE_DEBOUNCE has elapsed: a switchMode that transmits nothing does
\* not arm it, and once it is not active a system_state is applied in full
\* (mode and every actuator field it carries).
C29_GuardOnlyAfterSentRequest ==
  [][/\ (lastEv'.op = "switchMode" /\ out' = <<>>)
          => lastModeChangeTime' = lastModeChangeTime
     /\ (lastEv'.op = "system_state" /\ ~GuardActive)
          => /\ systemState'.mode = Get(lastEv'.msg, "mode")
             /\ PayloadMerged(systemState'.motorStates, lastEv'.msg)]_vars

----------------------------------------------------------------------------
(* Properties of the handlers as units *)

\* every mutation the handler of the frame data makes when it runs to its end
AppliedInFull(st, data, t) ==
  CASE data.type = "system_state" ->
         st.mode = Get(data, "mode") /\ PayloadMerged(st.motorStates, data)
    [] data.type = "mode_changed" ->
         st.mode = Get(data, "new_mode")
    [] data.type \in {"blockchain_data", "blockchain_data_update"} ->
         /\ \A f \in DOMAIN FeedDeltaOf(data) :
               f \in DOMAIN st.blockchainData /\ st.blockchainData[f] = FeedDeltaOf(data)[f]
         /\ MotorFieldsMerged(st.motorStates, MotorUpdates(st.motorStates, data, t))
    [] data.type \in {"motor_update", "motor_state_update"} ->
         MotorFieldsMerged(st.motorStates, ActuatorUpdatesOf(data))
    [] OTHER -> FALSE

\* C30: every step leaves the mirror either as it was or with all the
\* mutations of the handler that ran: a parsed frame is applied in full or not
\* at all, and a malformed frame or a command (sent or dropped) changes nothing.
C30_HandlersApplyAllOrNothing ==
  [][\/ systemState' = systemState
     \/ /\ "type" \in DOMAIN lastEv'.msg
        /\ AppliedInFull(systemState', lastEv'.msg, now')]_vars

\* a single-actuator update without its state was handled after a command for
\* that actuator had been applied, and the commanded values are still there
C30_Witness ==
  /\ lastEv.op = "motor_update"
  /\ "state" \notin DOMAIN lastEv.msg
  /\ systemState.motorStates[lastEv.msg.motor_name].velocity_rpm = 30
  /\ systemState.motorStates[lastEv.msg.motor_name].direction = "CCW"

----------------------------------------------------------------------------
(* Properties of the reconnect delay *)

\* the delay the configuration asks for
ConfiguredDelay(opts) ==
  IF IsSome(opts.reconnectDelay)
    THEN Val(opts.reconnectDelay)
    ELSE IF opts.clientType = "visitor" THEN VISITOR_RECONNECT_DELAY ELSE RECONNECT_DELAY

\* C31: every reconnect timer has the supplied reconnectDelay as its delay,
\* and without one 3000 ms for a web_ui client and 5000 ms for a visitor.
C31_ReconnectDelayIsOverrideOrRoleDefault ==
  \A i \in 1..Len(timers) : timers[i].delay = ConfiguredDelay(options)

----------------------------------------------------------------------------
(* Properties of the mirror's shape *)

\* C32: the mirror has an entry for each of the four known actuators from
\* construction, and no step removes an entry: the set of identifiers only grows.
C32_ActuatorSetOnlyGrows ==
  /\ KnownMotors \subseteq DOMAIN systemState.motorStates
  /\ [][DOMAIN systemState.motorStates \subseteq DOMAIN systemState'.motorStates]_vars

\* the mirror had gained a fifth actuator, and a broadcast that names only one
\* of the four was applied
C32_Witness ==
  /\ lastEv.op = "system_state"
  /\ "motor_states" \in DOMAIN lastEv.msg
  /\ DOMAIN lastEv.msg.motor_states = {"motor_canvas"}
  /\ systemState.motorStates.motor_canvas.velocity_rpm = lastEv.msg.motor_states.motor_canvas.velocity_rpm
  /\ DOMAIN systemState.motorStates = KnownMotors \cup {"motor_x"}

----------------------------------------------------------------------------
(* Frame properties of connectionStatus and of the commands *)

\* connect() by the caller or a timer, and the socket's open, close and error events
LifecycleOps == {"connect", "timer", "open", "open_throws", "close", "close_after_error", "error"}

\* the handshake replies
AuthOutcomeOps == {"authenticated", "authenticated_alert", "authentication_failed"}

MergeOps ==
  {"system_state", "mode_changed", "blockchain_data", "blockchain_data_update",
   "motor_update", "motor_state_update", "motor_command_executed"}

\* C33: a step that changes connectionStatus is a socket lifecycle event or the
\* handling of a handshake reply; the handling of a state-merge frame and the
\* outbound commands leave it as it was.
C33_StatusChangesOnlyOnLifecycleOrAuth ==
  [][/\ connectionStatus' # connectionStatus
          => lastEv'.op \in LifecycleOps \cup AuthOutcomeOps
     /\ lastEv'.op \in MergeOps \cup CommandOps
          => connectionStatus' = connectionStatus]_vars

\* a broadcast was applied on an open socket before the handshake reply: the
\* status is still 'connecting'
C33_Witness ==
  /\ lastEv.op = "system_state"
  /\ options.clientType = "web_ui"
  /\ systemState.mode = "auto"
  /\ connectionStatus = "connecting"

----------------------------------------------------------------------------
(* Properties of socket ownership *)

\* the sockets of the engine that are connecting or open
LiveSockets == {s \in Sockets : readyState[s] \in {"CONNECTING", "OPEN"}}

\* C34: in every reachable state at most one socket of the engine is
\* connecting or open and at most one reconnect timer is pending.
C34_OneLiveSocketOneTimer ==
  /\ Cardinality(LiveSockets) <= 1
  /\ Len(timers) <= 1

\* the events a socket delivers to its handlers
SocketEventOps ==
  (LifecycleOps \ {"connect", "timer"}) \cup AuthOutcomeOps \cup MergeOps \cup {"malformed"}

\* C35: an open, close, error or message event of a socket that is not the
\* engine's current socket leaves connectionStatus as it was, sets no
\* reconnect timer and sends nothing.
C35_SupersededSocketIsInert ==
  [][(lastEv'.op \in SocketEventOps /\ lastEv'.sock # ws)
       => /\ connectionStatus' = connectionStatus
          /\ timers' = timers
          /\ out' = <<>>]_vars

----------------------------------------------------------------------------
(* Properties of operatingMode *)

\* C36: in every reachable state systemState.mode is a defined, non-empty
\* mode string, whatever frames were handled.
C36_ModeIsAlwaysDefined ==
  systemState.mode # Undefined /\ systemState.mode # ""

\* C37: sendMotorCommand, switchMode, emergencyStop and updateApiKey leave
\* the mirror (mode, motorStates, blockchainData) as it was, sent or dropped;
\* a step that changes systemState.mode is the handling of an inbound
\* system_state or mode_changed.
C37_CommandsLeaveMirrorAlone ==
  [][/\ lastEv'.op \in CommandOps => systemState' = systemState
     /\ systemState'.mode # systemState.mode
          => lastEv'.op \in {"system_state", "mode_changed"}]_vars

\* switchMode('auto') was transmitted on the authenticated socket and the
\* mirror still shows the mode it had
C37_Witness ==
  /\ lastEv.op = "switchMode"
  /\ out # <<>>
  /\ out[1].msg.mode = "auto"
  /\ connectionStatus = "connected"
  /\ systemState.mode = "manual"

----------------------------------------------------------------------------
(* Properties of the credential *)

\* options.apiKey || ''
CurrentCredential(opts) == IF IsSome(opts.apiKey) THEN Val(opts.apiKey) ELSE ""

\* C38: the engine's credential is the one of construction until updateApiKey
\* supplies another, which it then is whether or not the call could send its
\* own authenticate frame; and the handshake of every socket-open carries the
\* engine's credential of that moment.
C38_HandshakeCarriesLatestCredential ==
  [][/\ lastEv'.op = "updateApiKey" => CurrentCredential(options') = lastEv'.msg.api_key
     /\ lastEv'.op # "updateApiKey" => options' = options
     /\ (lastEv'.op = "open" /\ out' # <<>>)
          => /\ Len(out') = 1
             /\ out'[1].msg.type = "authenticate"
             /\ out'[1].msg.api_key = CurrentCredential(options)]_vars

\* the first socket opened after updateApiKey('key2') had been called with no
\* socket open: the handshake is the only frame sent, and it carries key2
C38_Witness ==
  /\ lastEv.op = "open"
  /\ Cardinality(Created) = 1
  /\ authPending[1] = 1
  /\ out # <<>>
  /\ out[1].msg.api_key = "key2"

----------------------------------------------------------------------------
(* Frame property of the combined update *)

\* the motor_commands of a frame, none when the field is missing
MotorCommandsOf(data) ==
  IF "motor_commands" \in DOMAIN data THEN data.motor_commands ELSE <<>>

\* C39: the handling of a feed update makes no actuator entry; an entry of the
\* mirror that motor_commands does not name, or names with null, stays as it
\* was; and the feed fields of the same frame are merged all the same.
C39_CombinedUpdateCreatesNoActuator ==
  [][lastEv'.op \in {"blockchain_data", "blockchain_data_update"} =>
       LET cmds == MotorCommandsOf(lastEv'.msg)
       IN /\ DOMAIN systemState'.motorStates = DOMAIN systemState.motorStates
          /\ \A m \in DOMAIN systemState.motorStates :
                (m \notin DOMAIN cmds \/ cmds[m] = Null)
                  => systemState'.motorStates[m] = systemState.motorStates[m]
          /\ \A f \in DOMAIN FeedDeltaOf(lastEv'.msg) :
                /\ f \in DOMAIN systemState'.blockchainData
                /\ systemState'.blockchainData[f] = FeedDeltaOf(lastEv'.msg)[f]]_vars

\* a frame with a command for the unknown motor_x and a null command for
\* motor_pb was handled after the clock had moved: no motor_x entry, motor_pb
\* as constructed, the price merged
C39_Witness ==
  /\ lastEv.op = "blockchain_data"
  /\ "motor_x" \in DOMAIN MotorCommandsOf(lastEv.msg)
  /\ MotorCommandsOf(lastEv.msg).motor_pb = Null
  /\ "motor_x" \notin DOMAIN systemState.motorStates
  /\ now > StartTime
  /\ systemState.motorStates.motor_pb = InitialMotor(StartTime)
  /\ systemState.motorStates.motor_canvas.last_update = now \div 1000
  /\ systemState.blockchainData.eth_price_usd = <<"num", 2500>>

====
